---- MODULE Spec2Model ----
(***************************************************************************)
(* Model of the decision logic of getsentry/action-onlyrobots:            *)
(* LLMEvaluator (src/src/llm-evaluator.ts).                                *)
(*                                                                         *)
(* Text.  A JavaScript string is modelled as the sequence of its tokens;  *)
(* the string is the concatenation of the tokens.  The vocabulary is      *)
(* tokenised so that every pattern the code searches for occupies whole   *)
(* tokens wherever it occurs, so String.includes is the search for a      *)
(* contiguous sub-sequence and toLowerCase maps token by token.           *)
(*                                                                         *)
(* Numbers.  A JavaScript number is modelled as an exact fraction         *)
(* [n, d] in lowest terms; d = 0 is NaN (0/0).                             *)
(***************************************************************************)
EXTENDS Integers, Sequences, FiniteSets, TLC

\* one call of LLMEvaluator.evaluatePullRequest
VARIABLES pc, files, prContext, idx, fileResults, outcome, prev

\* one run of the action entry point (run)
VARIABLES apc, inputs, pull, checkRuns, comments, outputs, failure, warnings

\* one call of verifyWebhookSignature
VARIABLES request, verified

\* one call of runEvaluation of an eval runner
VARIABLES rpc, runner, options, prs, loopIndex, inFlight, started, resolved,
          rejected, batchSeen, slept, lastGap

evaluatorVars == <<pc, files, prContext, idx, fileResults, outcome, prev>>

runVars == <<apc, inputs, pull, checkRuns, comments, outputs, failure, warnings>>

webhookVars == <<request, verified>>

runnerVars ==
    <<rpc, runner, options, prs, loopIndex, inFlight, started, resolved,
      rejected, batchSeen, slept, lastGap>>

vars == <<evaluatorVars, runVars, webhookVars, runnerVars>>

-----------------------------------------------------------------------------
(* Bounds *)

MaxFiles == 3

-----------------------------------------------------------------------------
(* Numbers *)

RECURSIVE GCD(_, _)
GCD(a, b) == IF b = 0 THEN a ELSE GCD(b, a % b)

Abs(k) == IF k < 0 THEN 0 - k ELSE k

NaN == [n |-> 0, d |-> 0]

IsNaN(x) == x.d = 0

Rat(num, den) ==
    IF den = 0 THEN NaN
    ELSE LET g == GCD(Abs(num), Abs(den))
             s == IF den < 0 THEN 0 - 1 ELSE 1
         IN  [n |-> s * (num \div g), d |-> s * (den \div g)]

Num(k) == [n |-> k, d |-> 1]

Plus(x, y) ==
    IF IsNaN(x) \/ IsNaN(y) THEN NaN
    ELSE Rat(x.n * y.d + y.n * x.d, x.d * y.d)

Minus(x, y) ==
    IF IsNaN(x) \/ IsNaN(y) THEN NaN
    ELSE Rat(x.n * y.d - y.n * x.d, x.d * y.d)

\* x / k for a count k; the code only divides a sum by the length of the
\* list it was summed over, so k = 0 is 0 / 0.
DivBy(x, k) == IF IsNaN(x) \/ k = 0 THEN NaN ELSE Rat(x.n, x.d * k)

\* x * 0.8
TimesPoint8(x) == IF IsNaN(x) THEN NaN ELSE Rat(4 * x.n, 5 * x.d)

\* JavaScript comparisons: every comparison with NaN is false.
Lt(x, y) == ~IsNaN(x) /\ ~IsNaN(y) /\ x.n * y.d < y.n * x.d
Gt(x, y) == Lt(y, x)
Ge(x, y) == ~IsNaN(x) /\ ~IsNaN(y) /\ x.n * y.d >= y.n * x.d

\* Math.max / Math.min: NaN if either argument is NaN.
MathMax(x, y) == IF IsNaN(x) \/ IsNaN(y) THEN NaN ELSE IF Lt(x, y) THEN y ELSE x
MathMin(x, y) == IF IsNaN(x) \/ IsNaN(y) THEN NaN ELSE IF Lt(y, x) THEN y ELSE x

-----------------------------------------------------------------------------
(* Text *)

ROBOT == "<U+1F916>"
NL == "\n"
SP == " "

\* String.prototype.toLowerCase on one token.
LowerToken(t) ==
    CASE t = "Claude" -> "claude"
      [] t = "Code" -> "code"
      [] t = "Cursor" -> "cursor"
      [] t = "Generated" -> "generated"
      [] t = "Co-Authored-By" -> "co-authored-by"
      [] t = "Co-authored-by" -> "co-authored-by"
      [] t = "LICENSE" -> "license"
      [] t = "Summary" -> "summary"
      [] t = "Changes" -> "changes"
      [] t = "Test" -> "test"
      [] t = "Plan" -> "plan"
      [] t = "Human" -> "human"
      [] t = "Confidence" -> "confidence"
      [] t = "AI" -> "ai"
      [] t = "Jane" -> "jane"
      [] t = "Fix" -> "fix"
      [] t = "Move" -> "move"
      [] OTHER -> t

ToLowerCase(s) == [i \in 1..Len(s) |-> LowerToken(s[i])]

\* String.prototype.includes
Includes(s, pat) ==
    \E i \in 0..(Len(s) - Len(pat)) : SubSeq(s, i + 1, i + Len(pat)) = pat

\* Number of matches of a global, non-overlapping search for pat in s.
RECURSIVE CountMatchesFrom(_, _, _)
CountMatchesFrom(s, pat, i) ==
    IF i + Len(pat) - 1 > Len(s) THEN 0
    ELSE IF SubSeq(s, i, i + Len(pat) - 1) = pat
         THEN 1 + CountMatchesFrom(s, pat, i + Len(pat))
         ELSE CountMatchesFrom(s, pat, i + 1)

CountMatches(s, pat) == CountMatchesFrom(s, pat, 1)

\* String.prototype.split('\n')
RECURSIVE SplitLinesFrom(_, _, _)
SplitLinesFrom(s, i, cur) ==
    IF i > Len(s) THEN <<cur>>
    ELSE IF s[i] = NL THEN <<cur>> \o SplitLinesFrom(s, i + 1, <<>>)
         ELSE SplitLinesFrom(s, i + 1, Append(cur, s[i]))

SplitLines(s) == SplitLinesFrom(s, 1, <<>>)

WhitespaceTokens == {SP, NL, "  "}

\* s.trim() === ''
TrimIsEmpty(s) == \A i \in 1..Len(s) : s[i] \in WhitespaceTokens

\* the elements of a list / whether a list repeats an element
Range(s) == {s[i] : i \in 1..Len(s)}

HasDuplicates(s) == \E i, j \in 1..Len(s) : i # j /\ s[i] = s[j]

\* [...new Set(s)]: first occurrences, in order
RECURSIVE Dedup(_)
Dedup(s) ==
    IF s = <<>> THEN <<>>
    ELSE LET front == Dedup(SubSeq(s, 1, Len(s) - 1))
             last == s[Len(s)]
         IN  IF last \in Range(front) THEN front ELSE Append(front, last)

\* Array.prototype.flatMap over a list of lists
RECURSIVE Flatten(_)
Flatten(ss) == IF ss = <<>> THEN <<>> ELSE Head(ss) \o Flatten(Tail(ss))

\* Array.prototype.filter(...).length
CountWhere(s, P(_)) == Len(SelectSeq(s, P))

-----------------------------------------------------------------------------
(* Constants of llm-evaluator.ts *)

STRONG_SIGNALS ==
    << <<"ai", SP, "attribution">>,
       <<"ai", SP, "tool">>,
       <<"claude">>,
       <<"cursor">>,
       <<"copilot">>,
       <<ROBOT>>,
       <<"co-authored-by">> >>

FORMATTING ==
    << <<"formatting-fix">>, <<"precision-changes">>, <<"consistent-formatting">> >>

CLAUDE_CODE_SPECIFIC ==
    << <<ROBOT, SP, "generated", SP, "with">>,
       <<"claude", SP, "code">>,
       <<"noreply@anthropic.com">> >>

NO_DESCRIPTION == 0 - 10
FORMATTING_WITH_CONTEXT == 0 - 5
PERFECT_COMMITS == 0 - 20
VERBOSE_NAMING == 0 - 30
COMPREHENSIVE_COMMENTS == 0 - 25

\* the tags the evaluator itself emits
TagEvaluationError == <<"evaluation-error">>
TagNoPRDescription == <<"no-pr-description">>
TagVerboseNamingPatterns == <<"verbose", "-naming", "-patterns">>
TagComprehensiveCommenting == <<"comprehensive", "-", "comment", "ing">>
TagFormattingFixesWithHumanContext == <<"formatting-fix", "es-with-human-context">>
TagPerfectConventionalCommits == <<"perfect-conventional-commits">>
TagClaudeCodeSignature == <<"claude", "-", "code", "-signature">>
TagStructuredMarkdownSections == <<"structured-markdown-sections">>
TagCheckboxTaskList == <<"checkbox-task-list">>
TagPerfectFormatting == <<"perfect-formatting">>
TagComprehensiveTestPlan == <<"comprehensive", "-test-plan">>
TagAITypicalPhrasing == <<"ai-typical-phrasing">>
TagAIToolAttribution == <<"ai-tool-attribution">>
TagDebugStatements == <<"debug", "-statements">>
TagTodoComments == <<"todo", "-", "comment", "s">>
TagTypescriptUsage == <<"typescript", "-usage">>
TagConsistentFormatting == <<"consistent-formatting">>
TagPrecisionChanges == <<"precision-changes">>
TagFormattingFix == <<"formatting-fix">>
TagVerboseNaming == <<"verbose", "-naming">>

-----------------------------------------------------------------------------
(* The judge and evaluateFile *)

\* What the LLM judge does for one request:
\*   "error"  the request rejects (timeout, network error, non-2xx status)
\*   "empty"  a response without content
\*   "json"   content that JSON.parse accepts, an object with these fields
\*            (hasIndicators = FALSE: the indicators field is absent)
\*   "text"   content that JSON.parse rejects, the tokens of the text
Reply(kind, isHumanLike, confidence, hasIndicators, indicators, text) ==
    [kind |-> kind, isHumanLike |-> isHumanLike, confidence |-> confidence,
     hasIndicators |-> hasIndicators, indicators |-> indicators, text |-> text]

ReplyError == Reply("error", FALSE, NaN, FALSE, <<>>, <<>>)
ReplyEmpty == Reply("empty", FALSE, NaN, FALSE, <<>>, <<>>)
ReplyJson(isHumanLike, confidence, indicators) ==
    Reply("json", isHumanLike, confidence, TRUE, indicators, <<>>)
ReplyText(text) == Reply("text", FALSE, NaN, FALSE, <<>>, text)

LLMEvaluationResult(isHumanLike, confidence, indicators) ==
    [isHumanLike |-> isHumanLike, confidence |-> confidence, indicators |-> indicators]

\* parseInt of a token of digits
DigitTokens == {"0", "50", "60", "80", "95", "150"}

ParseInt(t) ==
    CASE t = "0" -> 0
      [] t = "50" -> 50
      [] t = "60" -> 60
      [] t = "80" -> 80
      [] t = "95" -> 95
      [] t = "150" -> 150

\* content.match(/confidence[:\s]*(\d+)/i): the leftmost "confidence" that is
\* followed, after any run of ':' and white space, by digits.
RECURSIVE SkipColonSpace(_, _)
SkipColonSpace(s, i) ==
    IF i <= Len(s) /\ s[i] \in (WhitespaceTokens \cup {":"})
    THEN SkipColonSpace(s, i + 1)
    ELSE i

ConfidenceMatchAt(s, i) ==
    /\ LowerToken(s[i]) = "confidence"
    /\ LET j == SkipColonSpace(s, i + 1) IN j <= Len(s) /\ s[j] \in DigitTokens

ConfidenceMatches(s) == {i \in 1..Len(s) : ConfidenceMatchAt(s, i)}

ConfidenceMatch(s) ==
    LET i == CHOOSE k \in ConfidenceMatches(s) : \A m \in ConfidenceMatches(s) : k <= m
    IN  ParseInt(s[SkipColonSpace(s, i + 1)])

indicatorMap ==
    << [indicator |-> TagAIToolAttribution,
        patterns |-> << <<"claude", SP, "code">>, <<"cursor">> >>],
       [indicator |-> TagDebugStatements,
        patterns |-> << <<"debug">>, <<"console.log">> >>],
       [indicator |-> TagTodoComments,
        patterns |-> << <<"todo">>, <<"fixme">> >>],
       [indicator |-> TagTypescriptUsage,
        patterns |-> << <<"typescript">>, <<"types">> >>],
       [indicator |-> TagConsistentFormatting,
        patterns |-> << <<"consistent">>, <<"formatted">> >>],
       [indicator |-> TagPrecisionChanges,
        patterns |-> << <<"surgical">>, <<"precision">>, <<"targeted">> >>],
       [indicator |-> TagFormattingFix,
        patterns |-> << <<"newline">>, <<"formatting", SP, "fix">> >>],
       [indicator |-> TagVerboseNaming,
        patterns |-> << <<"verbose">>, <<"descriptive", SP, "naming">>,
                        <<"overly", SP, "descriptive">> >>] >>

extractIndicators(content) ==
    LET lowerContent == ToLowerCase(content)
        Hit(e) == \E k \in 1..Len(e.patterns) : Includes(lowerContent, e.patterns[k])
        hits == SelectSeq(indicatorMap, Hit)
    IN  [k \in 1..Len(hits) |-> hits[k].indicator]

\* a parseResponse that does not read free text
parseResponseIgnoringText(content) ==
    IF content.kind = "json"
    THEN LLMEvaluationResult(content.isHumanLike, content.confidence,
                             IF content.hasIndicators THEN content.indicators ELSE <<>>)
    ELSE LLMEvaluationResult(FALSE, Num(50), <<>>)

parseResponse(content) ==
    IF content.kind = "json"
    THEN LLMEvaluationResult(content.isHumanLike, content.confidence,
                             IF content.hasIndicators THEN content.indicators ELSE <<>>)
    ELSE LLMEvaluationResult(
             Includes(ToLowerCase(content.text), <<"human">>),
             IF ConfidenceMatches(content.text) # {}
             THEN Num(ConfidenceMatch(content.text)) ELSE Num(50),
             extractIndicators(content.text))

\* the fallback of the evaluator variants that assume AI on error
FallbackAssumeAI == LLMEvaluationResult(FALSE, Num(50), <<TagEvaluationError>>)

\* "Fallback to assuming human-written on error"
FallbackResult == LLMEvaluationResult(TRUE, Num(50), <<TagEvaluationError>>)

\* an attempt that threw carries no value
NoResult == LLMEvaluationResult(FALSE, NaN, <<>>)

\* the try block of evaluateFile: it throws when the request rejects and
\* when the response has no content (null, or the empty string), otherwise
\* it returns parseResponse
Attempt(threw, value) == [threw |-> threw, value |-> value]

evaluateFileTry(reply) ==
    IF \/ reply.kind \in {"error", "empty"}
       \/ reply.kind = "text" /\ reply.text = <<>>
    THEN Attempt(TRUE, NoResult)
    ELSE Attempt(FALSE, parseResponse(reply))

\* a catch block that lets the error escape
evaluateFileRethrow(attempt) == attempt

\* the catch block of evaluateFile
evaluateFileCatch(attempt) == Attempt(FALSE, FallbackResult)

evaluateFile(file) ==
    LET attempt == evaluateFileTry(file.judge)
    IN  IF attempt.threw THEN evaluateFileCatch(attempt) ELSE attempt

FileAnalysis(file, result) ==
    [filename |-> file.filename, judge |-> file.judge, result |-> result]

-----------------------------------------------------------------------------
(* PR context *)

\* prContext?: present = FALSE is undefined; description? and
\* commitMessages? are optional fields.
PRContext(hasDescription, description, hasCommitMessages, commitMessages) ==
    [present |-> TRUE,
     hasDescription |-> hasDescription, description |-> description,
     hasCommitMessages |-> hasCommitMessages, commitMessages |-> commitMessages]

NoPRContext ==
    [present |-> FALSE,
     hasDescription |-> FALSE, description |-> <<>>,
     hasCommitMessages |-> FALSE, commitMessages |-> <<>>]

\* a string is truthy when it is defined and not empty
DescriptionTruthy(ctx) == ctx.present /\ ctx.hasDescription /\ ctx.description # <<>>

-----------------------------------------------------------------------------
(* Strong signals *)

hasStrongAISignals(results) ==
    \E i \in 1..Len(results) :
        \E k \in 1..Len(results[i].result.indicators) :
            LET indLower == ToLowerCase(results[i].result.indicators[k])
                hasGeneralSignal ==
                    \E s \in 1..Len(STRONG_SIGNALS) : Includes(indLower, STRONG_SIGNALS[s])
                hasClaudeCodeSignal ==
                    \E s \in 1..Len(CLAUDE_CODE_SPECIFIC) :
                        Includes(indLower, ToLowerCase(CLAUDE_CODE_SPECIFIC[s]))
            IN  hasGeneralSignal \/ hasClaudeCodeSignal

hasStrongPRSignals(ctx) ==
    LET msgs == IF ctx.hasCommitMessages THEN ctx.commitMessages ELSE <<>>
        hasClaudeSignature ==
            \/ \E m \in 1..Len(msgs) :
                   \/ Includes(msgs[m], <<ROBOT>>)
                   \/ Includes(msgs[m], <<"Claude", SP, "Code">>)
                   \/ Includes(msgs[m], <<"Co-Authored-By", ":", SP, "Claude">>)
                   \/ Includes(msgs[m], <<"Generated", SP, "with", SP, "[", "Claude", SP, "Code", "]">>)
            \/ (ctx.hasDescription /\ Includes(ctx.description, <<"Claude", SP, "Code">>))
            \/ (ctx.hasDescription /\ Includes(ctx.description, <<ROBOT>>))
        hasAIToolMention ==
            \E m \in 1..Len(msgs) :
                \E s \in 1..Len(STRONG_SIGNALS) :
                    Includes(ToLowerCase(msgs[m]), STRONG_SIGNALS[s])
        descriptionMention ==
            /\ DescriptionTruthy(ctx)
            /\ \E s \in 1..Len(STRONG_SIGNALS) :
                   Includes(ToLowerCase(ctx.description), STRONG_SIGNALS[s])
    IN  descriptionMention \/ hasClaudeSignature \/ hasAIToolMention

aggregateIndicators(results) ==
    Dedup(Flatten([i \in 1..Len(results) |-> results[i].result.indicators]))

-----------------------------------------------------------------------------
(* analyzePRContext *)

IndicatorsMention(result, pat) ==
    \E k \in 1..Len(result.indicators) : Includes(ToLowerCase(result.indicators[k]), pat)

areFormattingOnlyChanges(results) ==
    \A i \in 1..Len(results) :
        \E f \in 1..Len(FORMATTING) : IndicatorsMention(results[i].result, FORMATTING[f])

\* The last two patterns keep their capitals and are searched for in
\* lower-cased text.
hasVerboseNamingPatterns(results) ==
    LET Verbose(fa) ==
            \/ IndicatorsMention(fa.result, <<"verbose">>)
            \/ IndicatorsMention(fa.result, <<"overly", SP, "descriptive">>)
            \/ IndicatorsMention(fa.result, <<"userAccountInformation">>)
            \/ IndicatorsMention(fa.result, <<"formatUserDisplayName">>)
        verboseCount == CountWhere(results, Verbose)
    IN  verboseCount >= 2 \/ (verboseCount = 1 /\ Len(results) = 1)

hasComprehensiveComments(results) ==
    LET Commented(fa) ==
            \/ \E k \in 1..Len(fa.result.indicators) :
                   /\ Includes(ToLowerCase(fa.result.indicators[k]), <<"comprehensive">>)
                   /\ Includes(ToLowerCase(fa.result.indicators[k]), <<"comment">>)
            \/ IndicatorsMention(fa.result, <<"jsdoc">>)
            \/ IndicatorsMention(fa.result, <<"detailed", SP, "comments">>)
            \/ IndicatorsMention(fa.result, <<"extensive", SP, "documentation">>)
        commentCount == CountWhere(results, Commented)
    IN  commentCount >= 2 \/ (commentCount = 1 /\ Len(results) = 1)

ConventionalTypes ==
    {"feat", "fix", "chore", "docs", "style", "refactor", "test", "build", "perf", "ci"}

ScopeTokens == {"(api)", "(core)"}

\* /^(feat|fix|...)(\(.+\))?: .+/ on the first line of a commit message
conventionalCommitPattern(firstLine) ==
    /\ Len(firstLine) >= 1
    /\ firstLine[1] \in ConventionalTypes
    /\ LET c == IF Len(firstLine) >= 2 /\ firstLine[2] \in ScopeTokens THEN 3 ELSE 2
       IN  /\ Len(firstLine) >= c + 2
           /\ firstLine[c] = ":"
           /\ firstLine[c + 1] = SP

PRIndicators(indicators, confidenceAdjustment) ==
    [indicators |-> indicators, confidenceAdjustment |-> confidenceAdjustment]

\* one rule of analyzePRContext: push the tag and add its adjustment
Push(acc, fires, tag, adjustment) ==
    IF fires
    THEN PRIndicators(Append(acc.indicators, tag), acc.confidenceAdjustment + adjustment)
    ELSE acc

analyzePRContext(results, ctx) ==
    IF ~ctx.present THEN PRIndicators(<<>>, 0)
    ELSE
    LET msgs == IF ctx.hasCommitMessages THEN ctx.commitMessages ELSE <<>>
        a0 == PRIndicators(<<>>, 0)
        a1 == Push(a0, ~DescriptionTruthy(ctx) \/ TrimIsEmpty(ctx.description),
                   TagNoPRDescription, NO_DESCRIPTION)
        a2 == Push(a1, hasVerboseNamingPatterns(results),
                   TagVerboseNamingPatterns, VERBOSE_NAMING)
        a3 == Push(a2, hasComprehensiveComments(results),
                   TagComprehensiveCommenting, COMPREHENSIVE_COMMENTS)
        a4 == Push(a3, areFormattingOnlyChanges(results) /\ Len(a3.indicators) > 0,
                   TagFormattingFixesWithHumanContext, FORMATTING_WITH_CONTEXT)
        a5 == Push(a4,
                   /\ ctx.hasCommitMessages
                   /\ Len(msgs) > 2
                   /\ \A m \in 1..Len(msgs) : conventionalCommitPattern(SplitLines(msgs[m])[1]),
                   TagPerfectConventionalCommits, PERFECT_COMMITS)
        a6 == Push(a5,
                   \E m \in 1..Len(msgs) :
                       \/ Includes(msgs[m], <<ROBOT>>)
                       \/ Includes(msgs[m], <<"Claude", SP, "Code">>)
                       \/ Includes(msgs[m], <<"Co-Authored-By", ":", SP, "Claude">>),
                   TagClaudeCodeSignature, 0 - 100)
    IN  a6

-----------------------------------------------------------------------------
(* analyzePRDescription *)

PRDescAnalysis(isAIStyled, indicators, confidence) ==
    [isAIStyled |-> isAIStyled, indicators |-> indicators, confidence |-> confidence]

Typos == {"teh", "taht", "thsi", "wiht", "becuase", "recieve"}

\* the tokens a line can open with to match /^(#+\s|[-*]\s|\d+\.\s|\s{2,})/
LineMarkers == {"# ", "## ", "- ", "* ", "1. ", "  "}

aiPhrases ==
    << <<"ensure", SP, "proper">>, <<"compliance">>, <<"best", SP, "practices">>,
       <<"comprehensive">>, <<"robust">>, <<"scalable">>, <<"maintainable">>,
       <<"optimized">> >>

\* description.match(/- \[x\]/g)?.length ?? 0 >= 2
\* `>=` binds tighter than `??`: the right operand is (0 >= 2), and the
\* condition is the truthiness of the number of matches when there is one.
CheckboxCondition(description) ==
    LET matches == CountMatches(description, <<"- ", "[x]">>)
    IN  IF matches > 0 THEN matches # 0 ELSE 0 >= 2

\* one rule of analyzePRDescription: push the tag and add to the score
Score(acc, fires, tag, points) ==
    IF fires
    THEN [indicators |-> Append(acc.indicators, tag), aiScore |-> acc.aiScore + points]
    ELSE acc

analyzePRDescription(hasDescription, description) ==
    IF ~hasDescription \/ description = <<>> \/ TrimIsEmpty(description)
    THEN PRDescAnalysis(FALSE, <<>>, Num(0))
    ELSE
    LET lower == ToLowerCase(description)
        lines == SplitLines(description)
        hasBulletPoints ==
            Cardinality({l \in 1..Len(lines) : lines[l] # <<>> /\ lines[l][1] = "- "}) >= 2
        hasNoTypos == ~\E i \in 1..Len(lower) : lower[i] \in Typos
        hasConsistentFormatting ==
            \A l \in 1..Len(lines) :
                \/ TrimIsEmpty(lines[l])
                \/ lines[l][1] \in LineMarkers
        IsMatched(phrase) == Includes(lower, phrase)
        phraseMatches == CountWhere(aiPhrases, IsMatched)
        s0 == [indicators |-> <<>>, aiScore |-> 0]
        s1 == Score(s0,
                    \/ Includes(description, <<"## ", "Summary">>)
                    \/ Includes(description, <<"## ", "Changes">>),
                    TagStructuredMarkdownSections, 20)
        s2 == Score(s1, CheckboxCondition(description), TagCheckboxTaskList, 15)
        s3 == Score(s2, hasBulletPoints /\ hasNoTypos /\ hasConsistentFormatting,
                    TagPerfectFormatting, 20)
        s4 == Score(s3,
                    /\ (Includes(lower, <<"test", SP, "plan">>) \/ Includes(lower, <<"testing">>))
                    /\ Includes(description, <<"[x]">>),
                    TagComprehensiveTestPlan, 15)
        s5 == Score(s4, phraseMatches >= 2, TagAITypicalPhrasing, 10)
    IN  PRDescAnalysis(s5.aiScore >= 40, s5.indicators,
                       Num(IF s5.aiScore < 95 THEN s5.aiScore ELSE 95))

-----------------------------------------------------------------------------
(* The decision *)

IsHumanLikeFile(fa) == fa.result.isHumanLike
IsAIFile(fa) == ~fa.result.isHumanLike

\* list.reduce((sum, f) => sum + f.result.confidence, 0)
RECURSIVE SumConfidence(_)
SumConfidence(results) ==
    IF results = <<>> THEN Num(0)
    ELSE Plus(SumConfidence(SubSeq(results, 1, Len(results) - 1)),
              results[Len(results)].result.confidence)

\* an average kept up to date file by file
RECURSIVE RunningAverage(_)
RunningAverage(results) ==
    IF results = <<>> THEN NaN
    ELSE IF Len(results) = 1 THEN results[1].result.confidence
    ELSE DivBy(Plus(RunningAverage(SubSeq(results, 1, Len(results) - 1)),
                    results[Len(results)].result.confidence), 2)

AverageConfidence(results) == DivBy(SumConfidence(results), Len(results))

Overall(isHumanLike, confidence, indicators) ==
    [isHumanLike |-> isHumanLike, confidence |-> confidence, indicators |-> indicators]

\* buildAIDetectedResult(fileResults, prContext?)
buildAIDetectedResult(results, ctx) ==
    LET avgConfidence == AverageConfidence(results)
        indicators ==
            IF ctx.present
            THEN aggregateIndicators(results) \o analyzePRContext(results, ctx).indicators
            ELSE aggregateIndicators(results)
    IN  Overall(FALSE, MathMax(avgConfidence, Num(90)), indicators)

NonCodeExtensions == {".md", ".txt", ".license", ".json", ".yml", ".yaml", ".toml"}

\* /\.(md|txt|LICENSE|json|ya?ml|toml)$/i
HasNonCodeExtension(filename) ==
    filename # <<>> /\ LowerToken(filename[Len(filename)]) \in NonCodeExtensions

isNonCodePR(results) ==
    \A i \in 1..Len(results) :
        \/ HasNonCodeExtension(results[i].filename)
        \/ Includes(results[i].filename, <<"LICENSE">>)
        \/ Len(results[i].result.indicators) = 0

Verdict(isHumanLike, avgConfidence) ==
    [isHumanLike |-> isHumanLike, avgConfidence |-> avgConfidence]

\* the confidence an AI-leaning majority must exceed
ConfidenceGate == 75

\* a majority test that counts a tie as a majority
AtLeastAsMany(aiCount, humanCount) == aiCount >= humanCount

\* aiFiles.length > humanLikeFiles.length
IsMajority(aiCount, humanCount) == aiCount > humanCount

\* a gate that the boundary value passes
ReachesGate(aiConfidenceAvg) == Ge(aiConfidenceAvg, Num(ConfidenceGate))

\* aiConfidenceAvg > 75
ExceedsGate(aiConfidenceAvg) == Gt(aiConfidenceAvg, Num(ConfidenceGate))

\* the score of the description, whatever the files say
descriptionConfidence(avgConfidence, prDescAnalysis) == prDescAnalysis.confidence

\* avgConfidence = Math.max(avgConfidence, prDescAnalysis.confidence)
nonCodeConfidence(avgConfidence, prDescAnalysis) ==
    MathMax(avgConfidence, prDescAnalysis.confidence)

\* applyPRContextAdjustments up to the PR-context adjustment: the vote
Vote(results, ctx) ==
    LET humanLikeFiles == SelectSeq(results, IsHumanLikeFile)
        aiFiles == SelectSeq(results, IsAIFile)
        avgConfidence == AverageConfidence(results)
        prDescAnalysis == analyzePRDescription(ctx.present /\ ctx.hasDescription, ctx.description)
    IN  IF isNonCodePR(results) /\ prDescAnalysis.isAIStyled
        THEN Verdict(FALSE, nonCodeConfidence(avgConfidence, prDescAnalysis))
        ELSE IF IsMajority(Len(aiFiles), Len(humanLikeFiles))
        THEN Verdict(~ExceedsGate(AverageConfidence(aiFiles)), avgConfidence)
        ELSE IF prDescAnalysis.isAIStyled /\ Lt(avgConfidence, Num(50))
        THEN Verdict(FALSE, MathMax(avgConfidence, TimesPoint8(prDescAnalysis.confidence)))
        ELSE Verdict(TRUE, avgConfidence)

\* "PR context can push borderline cases toward human"
Flips(vote, prIndicators) ==
    /\ ~vote.isHumanLike
    /\ Len(prIndicators.indicators) >= 3
    /\ Lt(vote.avgConfidence, Num(80))

\* the PR-context adjustment of a vote
Adjusted(vote, prIndicators) ==
    IF Flips(vote, prIndicators)
    THEN Verdict(TRUE,
                 MathMax(Num(0),
                         MathMin(Num(100),
                                 Plus(vote.avgConfidence,
                                      Num(prIndicators.confidenceAdjustment)))))
    ELSE vote

\* the confidence copied whatever the polarity
CopiedConfidence(v) == v.avgConfidence

\* confidence: isHumanLike ? 100 - avgConfidence : avgConfidence
ReportedConfidence(v) ==
    IF v.isHumanLike THEN Minus(Num(100), v.avgConfidence) ELSE v.avgConfidence

applyPRContextAdjustments(results, ctx) ==
    LET vote == Vote(results, ctx)
    IN  IF ctx.present
        THEN LET prIndicators == analyzePRContext(results, ctx)
                 prDescAnalysis == analyzePRDescription(ctx.hasDescription, ctx.description)
                 final == Adjusted(vote, prIndicators)
             IN  Overall(final.isHumanLike, ReportedConfidence(final),
                         aggregateIndicators(results) \o prIndicators.indicators
                             \o prDescAnalysis.indicators)
        ELSE Overall(vote.isHumanLike, ReportedConfidence(vote), aggregateIndicators(results))

\* evaluatePullRequest before the PR-context check was added
DecideFilesOnly(results, ctx) ==
    IF hasStrongAISignals(results)
    THEN buildAIDetectedResult(results, NoPRContext)
    ELSE applyPRContextAdjustments(results, ctx)

\* the synchronous tail of evaluatePullRequest, after evaluateFiles
Decide(results, ctx) ==
    IF hasStrongAISignals(results)
    THEN buildAIDetectedResult(results, NoPRContext)
    ELSE IF ctx.present /\ hasStrongPRSignals(ctx)
    THEN buildAIDetectedResult(results, ctx)
    ELSE applyPRContextAdjustments(results, ctx)

-----------------------------------------------------------------------------
(* Inputs *)

FileToEvaluate(filename, judge) == [filename |-> filename, judge |-> judge]

IndClaudeCodeAttribution == <<"Claude", SP, "Code", SP, "attribution">>
IndJsdoc == <<"jsdoc">>

FileAI80 ==
    FileToEvaluate(<<"src/parser", ".ts">>,
                   ReplyJson(FALSE, Num(80), <<TagConsistentFormatting>>))
FileAIVerbose76 ==
    FileToEvaluate(<<"src/user", ".ts">>,
                   ReplyJson(FALSE, Num(76), <<TagVerboseNamingPatterns, IndJsdoc>>))
FileAI75 ==
    FileToEvaluate(<<"src/lexer", ".ts">>,
                   ReplyJson(FALSE, Num(75), <<TagPrecisionChanges>>))
FileHuman60 ==
    FileToEvaluate(<<"src/util", ".ts">>,
                   ReplyJson(TRUE, Num(60), <<TagDebugStatements>>))
FileHuman40 ==
    FileToEvaluate(<<"src/old", ".ts">>,
                   ReplyJson(TRUE, Num(40), <<TagTodoComments>>))
FileLicense ==
    FileToEvaluate(<<"LICENSE">>, ReplyJson(TRUE, Num(50), <<>>))
FileConfigAI70 ==
    FileToEvaluate(<<"package", ".json">>,
                   ReplyJson(FALSE, Num(70), <<TagConsistentFormatting>>))
FileClaude ==
    FileToEvaluate(<<"src/gen", ".ts">>,
                   ReplyJson(FALSE, Num(95), <<IndClaudeCodeAttribution>>))
FileJudgeError == FileToEvaluate(<<"src/net", ".ts">>, ReplyError)
FileJudgeEmpty == FileToEvaluate(<<"src/nil", ".ts">>, ReplyEmpty)
FileJudgeText ==
    FileToEvaluate(<<"src/txt", ".ts">>,
                   ReplyText(<<"Looks", SP, "human", ",", SP, "confidence", ":", SP, "80">>))
FileNoConfidence ==
    FileToEvaluate(<<"src/odd", ".ts">>,
                   Reply("json", FALSE, NaN, FALSE, <<>>, <<>>))

Files ==
    {FileAI80, FileAIVerbose76, FileAI75, FileHuman60, FileHuman40, FileLicense,
     FileConfigAI70, FileClaude, FileJudgeError, FileJudgeEmpty, FileJudgeText,
     FileNoConfidence}

DescPlain == <<"Fix", SP, "the", SP, "parser">>
DescStructured ==
    <<"## ", "Summary", NL,
      "- ", "[x]", SP, "done", NL,
      "- ", "[x]", SP, "checked">>
DescSigned == <<ROBOT, SP, "Generated", SP, "with", SP, "[", "Claude", SP, "Code", "]">>
DescCursorWord == <<"Move", SP, "the", SP, "cursor", SP, "to", SP, "the", SP, "end">>

MsgPlain == <<"wip">>
MsgFeat == <<"feat", "(api)", ":", SP, "add", SP, "parser">>
MsgFix == <<"fix", ":", SP, "typo">>
MsgSigned ==
    <<"feat", ":", SP, "add", SP, "parser", NL, NL,
      ROBOT, SP, "Generated", SP, "with", SP, "[", "Claude", SP, "Code", "]", NL,
      "Co-Authored-By", ":", SP, "Claude", SP, "<", "noreply@anthropic.com", ">">>
MsgHumanCoAuthor ==
    <<"fix", SP, "parser", NL, NL, "Co-authored-by", ":", SP, "Jane">>

CtxNoDescription == PRContext(FALSE, <<>>, TRUE, <<MsgPlain>>)
CtxPlain == PRContext(TRUE, DescPlain, TRUE, <<MsgPlain>>)
CtxStructured == PRContext(TRUE, DescStructured, TRUE, <<MsgPlain>>)
CtxConventional == PRContext(TRUE, <<>>, TRUE, <<MsgFeat, MsgFix, MsgFix>>)
CtxSignedCommit == PRContext(TRUE, DescPlain, TRUE, <<MsgSigned>>)
CtxSignedDescription == PRContext(TRUE, DescSigned, FALSE, <<>>)
CtxCursorWord == PRContext(TRUE, DescCursorWord, TRUE, <<MsgPlain>>)
CtxHumanCoAuthor == PRContext(TRUE, DescPlain, TRUE, <<MsgHumanCoAuthor>>)

Contexts ==
    {NoPRContext, CtxNoDescription, CtxPlain, CtxStructured, CtxConventional,
     CtxSignedCommit, CtxSignedDescription, CtxCursorWord, CtxHumanCoAuthor}

FileLists == UNION {[1..n -> Files] : n \in 0..MaxFiles}

-----------------------------------------------------------------------------
(* evaluatePullRequest as a state machine *)

NoOutcome == [status |-> "none", overallResult |-> Overall(FALSE, NaN, <<>>)]
Returned(overallResult) == [status |-> "returned", overallResult |-> overallResult]
Rejected == [status |-> "rejected", overallResult |-> Overall(FALSE, NaN, <<>>)]

\* the last settled call, kept for comparing calls on one evaluator
NoPrev ==
    [set |-> FALSE, files |-> <<>>, prContext |-> NoPRContext,
     fileResults |-> <<>>, outcome |-> NoOutcome]

\* the array of the call before, had it been kept on the evaluator
KeptFileResults == prev.fileResults

\* const fileResults: FileAnalysis[] = []
NewFileResults == <<>>

\* a new LLMEvaluator
InitEvaluator ==
    /\ pc = "idle"
    /\ files = <<>>
    /\ prContext = NoPRContext
    /\ idx = 0
    /\ fileResults = <<>>
    /\ outcome = NoOutcome
    /\ prev = NoPrev

\* the action entry point before it ran: nothing read, nothing reported
NoInputs == [prNumber |-> "", postComment |-> "", failOnHuman |-> ""]

NoPull == [context |-> NoPRContext, changed |-> <<>>]

\* no core.setOutput yet (confidence is kept in the shape toFixed prints)
NoOutputs ==
    [set |-> FALSE, result |-> "",
     confidence |-> [nan |-> TRUE, tenths |-> 0, fractionDigits |-> 0],
     summary |-> ""]

NoFailure == [kind |-> "none", at |-> ""]

InitRun ==
    /\ apc = "start"
    /\ inputs = NoInputs
    /\ pull = NoPull
    /\ checkRuns = <<>>
    /\ comments = <<>>
    /\ outputs = NoOutputs
    /\ failure = NoFailure
    /\ warnings = <<>>

\* no webhook delivery at hand
NoRequest == [body |-> <<>>, signature |-> [null |-> TRUE, text |-> <<>>], secret |-> <<>>]

InitNoRequest ==
    /\ request = NoRequest
    /\ verified = "none"

\* no eval runner at work
NoOptions == [given |-> FALSE, concurrency |-> 0]

NoGap == [set |-> FALSE, ms |-> 0]

InitNoRunner ==
    /\ rpc = "idle"
    /\ runner = "none"
    /\ options = NoOptions
    /\ prs = 0
    /\ loopIndex = 0
    /\ inFlight = {}
    /\ started = <<>>
    /\ resolved = 0
    /\ rejected = 0
    /\ batchSeen = FALSE
    /\ slept = 0
    /\ lastGap = NoGap

Init ==
    /\ InitEvaluator
    /\ InitRun
    /\ InitNoRequest
    /\ InitNoRunner

\* a caller invokes evaluatePullRequest(fs, ctx); evaluateFiles starts
Call(fs, ctx) ==
    /\ pc = "idle"
    /\ pc' = "evaluating"
    /\ files' = fs
    /\ prContext' = ctx
    /\ idx' = 0
    /\ fileResults' = NewFileResults
    /\ outcome' = NoOutcome
    /\ UNCHANGED prev

\* one turn of `for (const file of files)`: await evaluateFile, push
EvaluateNextFile ==
    /\ pc = "evaluating"
    /\ idx < Len(files)
    /\ LET file == files[idx + 1]
           attempt == evaluateFile(file)
       IN  IF attempt.threw
           THEN /\ pc' = "done"
                /\ outcome' = Rejected
                /\ UNCHANGED <<idx, fileResults>>
           ELSE /\ idx' = idx + 1
                /\ fileResults' = Append(fileResults, FileAnalysis(file, attempt.value))
                /\ UNCHANGED <<pc, outcome>>
    /\ UNCHANGED <<files, prContext, prev>>
    /\ UNCHANGED <<runVars, webhookVars, runnerVars>>

\* the loop is over: the strong-signal checks and the aggregation
Aggregate ==
    /\ pc = "evaluating"
    /\ idx = Len(files)
    /\ pc' = "done"
    /\ outcome' = Returned(Decide(fileResults, prContext))
    /\ UNCHANGED <<files, prContext, idx, fileResults, prev>>
    /\ UNCHANGED <<runVars, webhookVars, runnerVars>>

\* the promise settles; the parameters and locals of the call are gone
Return ==
    /\ pc = "done"
    /\ pc' = "idle"
    /\ files' = <<>>
    /\ prContext' = NoPRContext
    /\ idx' = 0
    /\ fileResults' = <<>>
    /\ outcome' = NoOutcome
    /\ UNCHANGED prev
    /\ UNCHANGED <<runVars, webhookVars, runnerVars>>

\* any caller, any pull request
CallAny ==
    /\ pc = "idle"
    /\ \E fs \in FileLists, ctx \in Contexts : Call(fs, ctx)
    /\ UNCHANGED <<runVars, webhookVars, runnerVars>>

Next ==
    \/ CallAny
    \/ EvaluateNextFile
    \/ Aggregate
    \/ Return

Spec == Init /\ [][Next]_vars

-----------------------------------------------------------------------------
(* Repeated calls on one evaluator, each settled call remembered *)

MaxRepeatFiles == 2

RepeatFiles == {FileAI80, FileHuman60, FileJudgeError}

RepeatContexts == {NoPRContext, CtxNoDescription, CtxSignedCommit}

RepeatFileLists == UNION {[1..n -> RepeatFiles] : n \in 0..MaxRepeatFiles}

CallAgain ==
    /\ pc = "idle"
    /\ \E fs \in RepeatFileLists, ctx \in RepeatContexts : Call(fs, ctx)
    /\ UNCHANGED <<runVars, webhookVars, runnerVars>>

ReturnRemembered ==
    /\ pc = "done"
    /\ pc' = "idle"
    /\ files' = <<>>
    /\ prContext' = NoPRContext
    /\ idx' = 0
    /\ fileResults' = <<>>
    /\ outcome' = NoOutcome
    /\ prev' = [set |-> TRUE, files |-> files, prContext |-> prContext,
                fileResults |-> fileResults, outcome |-> outcome]
    /\ UNCHANGED <<runVars, webhookVars, runnerVars>>

NextRepeat ==
    \/ CallAgain
    \/ EvaluateNextFile
    \/ Aggregate
    \/ ReturnRemembered

SpecRepeat == Init /\ [][NextRepeat]_vars

-----------------------------------------------------------------------------
(* Properties *)

Done == pc = "done" /\ outcome.status = "returned"

Result == outcome.overallResult

\* an explicit AI-tool signature in a text: the tool named as author
\* ("Claude Code"), the robot-emoji marker, or the AI co-author trailer
CarriesSignature(text) ==
    LET lower == ToLowerCase(text)
    IN  \/ Includes(lower, <<"claude", SP, "code">>)
        \/ Includes(text, <<ROBOT>>)
        \/ Includes(lower, <<"co-authored-by", ":", SP, "claude">>)

SignatureInFiles ==
    \E i \in 1..Len(fileResults) :
        \E k \in 1..Len(fileResults[i].result.indicators) :
            CarriesSignature(fileResults[i].result.indicators[k])

SignatureInPR ==
    /\ prContext.present
    /\ \/ prContext.hasDescription /\ CarriesSignature(prContext.description)
       \/ /\ prContext.hasCommitMessages
          /\ \E m \in 1..Len(prContext.commitMessages) :
                 CarriesSignature(prContext.commitMessages[m])

SignaturePresent == SignatureInFiles \/ SignatureInPR

\* none of the two strong-signal checks of evaluatePullRequest fires
NoOverride ==
    /\ ~hasStrongAISignals(fileResults)
    /\ ~(prContext.present /\ hasStrongPRSignals(prContext))

CurrentVote == Vote(fileResults, prContext)

CurrentPRIndicators == analyzePRContext(fileResults, prContext)

DescriptionAIStyled ==
    analyzePRDescription(prContext.present /\ prContext.hasDescription,
                         prContext.description).isAIStyled

AICount == Len(SelectSeq(fileResults, IsAIFile))
HumanCount == Len(SelectSeq(fileResults, IsHumanLikeFile))

\* C1: whenever a file indicator, a commit message or the PR description
\* carries an explicit AI-tool signature, evaluatePullRequest returns
\* isHumanLike = false with confidence >= 90.
C1_AbsoluteOverride ==
    (Done /\ SignaturePresent) =>
        (~Result.isHumanLike /\ Ge(Result.confidence, Num(90)))

\* C2: a signature always ends in an AI verdict, whatever the vote and the
\* PR-context correction would have made of the input, and no human-authored
\* result carries the claude-code-signature indicator.
C2_OverrideNeverWeakened ==
    Done =>
        /\ SignaturePresent => ~Result.isHumanLike
        /\ Result.isHumanLike => TagClaudeCodeSignature \notin Range(Result.indicators)

\* a signed pull request that the PR-context correction would have flipped
C2_Witness ==
    /\ Done
    /\ SignaturePresent
    /\ Flips(CurrentVote, CurrentPRIndicators)
    /\ TagClaudeCodeSignature \in Range(Result.indicators)
    /\ ~Result.isHumanLike

\* the PR-context correction turned an AI vote into a human verdict
FlipApplied ==
    /\ Done
    /\ NoOverride
    /\ prContext.present
    /\ ~CurrentVote.isHumanLike
    /\ Result.isHumanLike

Clamp0To100(x) ==
    IF Lt(x, Num(0)) THEN Num(0) ELSE IF Gt(x, Num(100)) THEN Num(100) ELSE x

\* C3 as claimed: after a flip the reported confidence is 100 minus the
\* confidence the AI verdict had before the flip.
C3_ConfidenceInversion ==
    FlipApplied => Result.confidence = Minus(Num(100), CurrentVote.avgConfidence)

\* C3 amended: after a flip the reported confidence is 100 minus the AI
\* verdict's confidence after the PR-level adjustments were added to it and
\* the sum clamped to [0, 100].
C3_InversionOfAdjusted ==
    FlipApplied =>
        Result.confidence =
            Minus(Num(100),
                  Clamp0To100(Plus(CurrentVote.avgConfidence,
                                   Num(CurrentPRIndicators.confidenceAdjustment))))

C3_Witness ==
    /\ FlipApplied
    /\ CurrentPRIndicators.confidenceAdjustment < 0
    /\ Gt(CurrentVote.avgConfidence, Num(ConfidenceGate))

Tie == AICount = HumanCount

AIMajority == AICount > HumanCount

AIAverageAbove75 == Gt(AverageConfidence(SelectSeq(fileResults, IsAIFile)), Num(75))

NonCodeCase == isNonCodePR(fileResults) /\ DescriptionAIStyled

\* no AI majority, an AI-styled description and an overall average below 50
AmbiguousFilesCase ==
    /\ ~AIMajority
    /\ DescriptionAIStyled
    /\ Lt(AverageConfidence(fileResults), Num(50))

\* C5 as claimed: outside the absolute override and the non-code case the
\* vote is AI-authored exactly when AI-leaning files are the strict majority
\* and their average confidence is strictly above 75.
C5_MajorityVoteGate ==
    (Done /\ NoOverride /\ ~NonCodeCase) =>
        (~CurrentVote.isHumanLike <=> (AIMajority /\ AIAverageAbove75))

\* C5 amended: the same, outside the ambiguous-files case as well; and the
\* final verdict is AI-authored only if the vote was.
C5_MajorityVoteGateUnlessAmbiguous ==
    (Done /\ NoOverride /\ ~NonCodeCase /\ ~AmbiguousFilesCase) =>
        /\ ~CurrentVote.isHumanLike <=> (AIMajority /\ AIAverageAbove75)
        /\ ~Result.isHumanLike => (AIMajority /\ AIAverageAbove75)

\* an AI majority whose average is exactly 75
C5_Witness ==
    /\ Done
    /\ NoOverride
    /\ ~NonCodeCase
    /\ AIMajority
    /\ AverageConfidence(SelectSeq(fileResults, IsAIFile)) = Num(75)
    /\ Result.isHumanLike

FileLevelTags ==
    UNION {Range(fileResults[i].result.indicators) : i \in 1..Len(fileResults)}

PRLevelTags ==
    IF prContext.present
    THEN Range(CurrentPRIndicators.indicators)
             \cup Range(analyzePRDescription(prContext.hasDescription,
                                             prContext.description).indicators)
    ELSE {}

\* C6: on every return path the indicators of the overall result repeat no
\* tag and contain every file-level tag and every PR-level tag that fired.
C6_IndicatorUnion ==
    Done =>
        /\ ~HasDuplicates(Result.indicators)
        /\ FileLevelTags \subseteq Range(Result.indicators)
        /\ PRLevelTags \subseteq Range(Result.indicators)

IsFallback(result) ==
    /\ result.confidence = Num(50)
    /\ TagEvaluationError \in Range(result.indicators)

\* C7 as claimed: a timeout, a non-2xx status, an empty response and a
\* malformed response all end in the fallback judgment, and never in a throw.
C7_FailureGivesFallback ==
    /\ outcome.status # "rejected"
    /\ \A i \in 1..Len(fileResults) :
           files[i].judge.kind \in {"error", "empty", "text"} =>
               IsFallback(fileResults[i].result)

\* C7 amended: evaluateFile never throws; a rejected request (timeout,
\* non-2xx) and an empty response end in the fallback judgment; a response
\* that is not JSON is normalised and returned like any other judgment.
C7_LostResponseGivesFallback ==
    /\ outcome.status # "rejected"
    /\ \A i \in 1..Len(fileResults) :
           /\ files[i].judge.kind \in {"error", "empty"} =>
                  IsFallback(fileResults[i].result)
           /\ files[i].judge.kind = "text" =>
                  fileResults[i].result = parseResponse(files[i].judge)

C7_Witness ==
    /\ \E i \in 1..Len(fileResults) : files[i].judge.kind = "error"
    /\ \E i \in 1..Len(fileResults) : files[i].judge.kind = "empty"
    /\ \E i \in 1..Len(fileResults) : files[i].judge.kind = "text"

JudgeFailed(file) == file.judge.kind \in {"error", "empty"}

\* C8: whatever files the judge fails on, the call settles with a verdict
\* and one fileResults entry per input file, in order; a failed file is in
\* the vote as a human-leaning judgment of confidence 50, so that a pull
\* request whose every file failed is, without PR context, human at 50.
C8_FailureNeverAborts ==
    pc = "done" =>
        /\ outcome.status = "returned"
        /\ Len(fileResults) = Len(files)
        /\ \A i \in 1..Len(fileResults) :
               /\ fileResults[i].filename = files[i].filename
               /\ JudgeFailed(files[i]) =>
                      /\ fileResults[i].result.isHumanLike
                      /\ IsFallback(fileResults[i].result)
        /\ HumanCount >= Len(SelectSeq(files, JudgeFailed))
        /\ (Len(files) > 0 /\ ~prContext.present /\ \A i \in 1..Len(files) : JudgeFailed(files[i]))
               => Result = Overall(TRUE, Num(50), <<TagEvaluationError>>)

\* some files failed, some did not
C8_Witness ==
    /\ Done
    /\ \E i \in 1..Len(files) : JudgeFailed(files[i])
    /\ \E i \in 1..Len(files) : files[i].judge.kind = "json"
    /\ Len(fileResults) = Len(files)

\* evaluateFiles on a list
evaluateFilesOf(fs) == [i \in 1..Len(fs) |-> FileAnalysis(fs[i], evaluateFile(fs[i]).value)]

\* C9: for every permutation of the file list the evaluation returns the
\* same isHumanLike, the same confidence and the same set of indicators.
C9_OrderIndependence ==
    Done =>
        \A p \in Permutations(1..Len(files)) :
            LET permuted == [i \in 1..Len(files) |-> files[p[i]]]
                r == Decide(evaluateFilesOf(permuted), prContext)
            IN  /\ r.isHumanLike = Result.isHumanLike
                /\ r.confidence = Result.confidence
                /\ Range(r.indicators) = Range(Result.indicators)

\* a list whose files differ in polarity and confidence
C9_Witness ==
    /\ Done
    /\ Len(files) >= 2
    /\ fileResults[1].result.isHumanLike # fileResults[2].result.isHumanLike
    /\ fileResults[1].result.confidence # fileResults[2].result.confidence

\* C10: a call on the same files and PR context as the call before it
\* settles with the same outcome, and the outcome of any call is the one a
\* new evaluator gives for its files and PR context.
C10_NoCrossPRState ==
    pc = "done" =>
        /\ (prev.set /\ prev.files = files /\ prev.prContext = prContext)
               => outcome = prev.outcome
        /\ outcome = Returned(Decide(evaluateFilesOf(files), prContext))

\* the same pull request evaluated twice in a row
C10_Witness ==
    /\ Done
    /\ prev.set
    /\ prev.files = files
    /\ prev.prContext = prContext
    /\ Len(files) > 0

\* a call after the evaluation of a different pull request
C10_WitnessAfterOther ==
    /\ Done
    /\ prev.set
    /\ prev.files # files
    /\ prev.outcome # outcome

-----------------------------------------------------------------------------
(* The numeric semantics of the reported confidence *)

\* every file is judged human-like, all with the confidence c
AllHumanAt(c) ==
    /\ fileResults # <<>>
    /\ \A i \in 1..Len(fileResults) :
           /\ fileResults[i].result.isHumanLike
           /\ fileResults[i].result.confidence = c

\* no rule of analyzePRContext or analyzePRDescription fires and no strong
\* signal is present
NoPRLevelSignal ==
    /\ NoOverride
    /\ PRLevelTags = {}

\* C19: if every file is judged human-like with confidence c and no PR-level
\* signal fires, the overall result is human-authored with confidence c.
C19_ConfidenceInReturnedPolarity ==
    \A c \in {Num(40), Num(50), Num(60), Num(80)} :
        (Done /\ AllHumanAt(c) /\ NoPRLevelSignal) =>
            (Result.isHumanLike /\ Result.confidence = c)

\* C20: with a PR context and without absolute override the reported
\* confidence is the confidence of the vote (the average, or the average
\* turned to the vote's polarity) plus the sum of the adjustments of the
\* PR-level tags that fired, clamped to [0, 100].
C20_AdjustmentAlwaysApplied ==
    (Done /\ fileResults # <<>> /\ prContext.present /\ NoOverride) =>
        LET adjustment == Num(CurrentPRIndicators.confidenceAdjustment)
        IN  \/ Result.confidence =
                   Clamp0To100(Plus(CurrentVote.avgConfidence, adjustment))
            \/ Result.confidence =
                   Clamp0To100(Plus(ReportedConfidence(CurrentVote), adjustment))

-----------------------------------------------------------------------------
(* The action entry point: run *)

MaxChanged == 2

\* action.yml: the defaults of the inputs
PostCommentDefault == "true"
FailOnHumanDefault == "false"

\* what a workflow can give for a boolean input; "" is an input left out
InputValues == {"", "true", "false"}

\* the pr-number input after its default (the number of the event's pull
\* request, nothing outside a pull-request event)
PrNumberInputs == {"", "0", "50"}

\* core.getInput(name): the value given in the workflow, else the default
getInput(given, default) == IF given = "" THEN default ELSE given

\* parseInt(core.getInput('pr-number') || '0')
prNumber == ParseInt(IF inputs.prNumber = "" THEN "0" ELSE inputs.prNumber)

\* core.getInput('post-comment') === 'true'
postComment == getInput(inputs.postComment, PostCommentDefault) = "true"

\* core.getInput('fail-on-human') === 'true'
failOnHuman == getInput(inputs.failOnHuman, FailOnHumanDefault) = "true"

\* one entry of pulls.listFiles; hasPatch = FALSE is an entry without patch
\* (a binary or too large file).  The judge's reply to the file rides along.
ChangedFile(file, status, hasPatch) ==
    [filename |-> file.filename, status |-> status, hasPatch |-> hasPatch,
     judge |-> file.judge]

FileReadme ==
    FileToEvaluate(<<"README", ".md">>, ReplyJson(TRUE, Num(60), <<>>))
FileBuildScript ==
    FileToEvaluate(<<"scripts/build", ".mjs">>,
                   ReplyJson(FALSE, Num(80), <<TagConsistentFormatting>>))

ChangedFiles ==
    {ChangedFile(FileAI80, "modified", TRUE),
     ChangedFile(FileHuman60, "added", TRUE),
     ChangedFile(FileAI75, "removed", TRUE),
     ChangedFile(FileHuman40, "modified", FALSE),
     ChangedFile(FileConfigAI70, "modified", TRUE),
     ChangedFile(FileReadme, "modified", TRUE),
     ChangedFile(FileBuildScript, "added", TRUE),
     ChangedFile(FileNoConfidence, "modified", TRUE)}

\* the description and the commit messages the pull request carries
PullTexts == {CtxPlain, CtxSignedCommit, CtxSignedDescription}

PullRequests ==
    {[context |-> ctx, changed |-> ch] :
        ctx \in PullTexts,
        ch \in UNION {[1..n -> ChangedFiles] : n \in 0..MaxChanged}}

\* filename.endsWith(ext); an extension is the last token of a file name
EndsWith(filename, ext) == filename # <<>> /\ filename[Len(filename)] = ext

\* isCodeFile of the action entry point
codeExtensions ==
    {".js", ".jsx", ".ts", ".tsx", ".py", ".java", ".cpp", ".c", ".h", ".cs",
     ".rb", ".go", ".rs", ".swift", ".kt", ".scala", ".php", ".vue",
     ".svelte", ".astro"}

isCodeFile(filename) == \E ext \in codeExtensions : EndsWith(filename, ext)

\* GitHubClient.isCodeFile
clientCodeExtensions ==
    {".js", ".jsx", ".ts", ".tsx", ".py", ".java", ".cpp", ".c", ".h", ".cs",
     ".rb", ".go", ".rs", ".swift", ".kt", ".scala", ".php", ".vue",
     ".svelte", ".astro", ".mjs", ".cjs", ".json", ".yaml", ".yml"}

clientIsCodeFile(filename) == \E ext \in clientCodeExtensions : EndsWith(filename, ext)

\* .map((file) => ({filename, patch: file.patch || ''}))
\*     .filter((file) => file.patch.length > 0)
HasPatchText(cf) == cf.hasPatch

ToEvaluate(kept) ==
    [i \in 1..Len(kept) |-> FileToEvaluate(kept[i].filename, kept[i].judge)]

KeptByAction(cf) == cf.status # "removed" /\ isCodeFile(cf.filename)

\* filesToEvaluate of run
filesToEvaluate(changed) ==
    ToEvaluate(SelectSeq(SelectSeq(changed, KeptByAction), HasPatchText))

KeptByClient(cf) == cf.status # "removed" /\ clientIsCodeFile(cf.filename)

\* GitHubClient.fetchPullRequestFiles
fetchPullRequestFiles(changed) ==
    ToEvaluate(SelectSeq(SelectSeq(changed, KeptByClient), HasPatchText))

\* Number.prototype.toFixed(1): the number in tenths, rounded half away
\* from zero, printed with one digit after the point; NaN prints as "NaN"
ToFixed1(x) ==
    IF IsNaN(x)
    THEN [nan |-> TRUE, tenths |-> 0, fractionDigits |-> 0]
    ELSE LET magnitude == (20 * Abs(x.n) + x.d) \div (2 * x.d)
         IN  [nan |-> FALSE, tenths |-> IF x.n < 0 THEN 0 - magnitude ELSE magnitude,
              fractionDigits |-> 1]

\* the string '100': no digit after the point
Literal100 == [nan |-> FALSE, tenths |-> 1000, fractionDigits |-> 0]

\* buildDetails calls fileResult.result.confidence.toFixed(1) for every file
\* it lists (the human-like files of a human verdict, every file of an AI
\* verdict); a confidence that is not a number has no toFixed.  A judgment
\* parsed from JSON holds a number whenever the JSON held one.
buildDetailsThrows(overallResult, results) ==
    \E i \in 1..Len(results) :
        /\ overallResult.isHumanLike => results[i].result.isHumanLike
        /\ IsNaN(results[i].result.confidence)

\* a conclusion that ignores the verdict
conclusionNeutral(overallResult) == "neutral"

\* conclusion: overallResult.isHumanLike ? 'failure' : 'success'
conclusion(overallResult) ==
    IF overallResult.isHumanLike THEN "failure" ELSE "success"

CheckRun(overallResult) ==
    [name |-> "Only Robots", status |-> "completed",
     conclusion |-> conclusion(overallResult)]

\* core.setOutput('result' / 'confidence' / 'summary', ...)
VerdictOutputs(overallResult) ==
    [set |-> TRUE,
     result |-> IF overallResult.isHumanLike THEN "failed" ELSE "passed",
     confidence |-> ToFixed1(overallResult.confidence),
     summary |-> "overallResult.reasoning"]

NoCodeOutputs ==
    [set |-> TRUE, result |-> "passed", confidence |-> Literal100,
     summary |-> "No code files to evaluate"]

\* a comment on every human verdict, whatever the input says
commentsOnEveryHuman(overallResult) == overallResult.isHumanLike

\* if (overallResult.isHumanLike && postComment)
commentsOnHuman(overallResult) == overallResult.isHumanLike /\ postComment

\* the build of the entry point in dist/: a human verdict always fails the run
failsOnEveryHuman(overallResult) == overallResult.isHumanLike

\* if (overallResult.isHumanLike) { if (failOnHuman) core.setFailed(...)
failsOnHuman(overallResult) == overallResult.isHumanLike /\ failOnHuman

HumanWritten == "Code appears to be human-written"

\* the last statements of the try block: setFailed, warning or info
Conclude(overallResult) ==
    /\ apc' = "ended"
    /\ failure' = IF failsOnHuman(overallResult)
                  THEN [kind |-> HumanWritten, at |-> ""]
                  ELSE failure
    /\ warnings' = IF overallResult.isHumanLike /\ ~failsOnHuman(overallResult)
                   THEN Append(warnings, HumanWritten)
                   ELSE warnings

\* catch (error) { core.setFailed(`Action failed: ...`) }
Catch(at) ==
    /\ apc' = "ended"
    /\ failure' = [kind |-> "Action failed", at |-> at]

\* the inputs are read; without a pull request number the run fails at once
GetInputs ==
    /\ apc = "start"
    /\ \E pn \in PrNumberInputs, pcm \in InputValues, foh \in InputValues :
           inputs' = [prNumber |-> pn, postComment |-> pcm, failOnHuman |-> foh]
    /\ IF ParseInt(IF inputs'.prNumber = "" THEN "0" ELSE inputs'.prNumber) = 0
       THEN /\ failure' = [kind |-> "No pull request number provided", at |-> ""]
            /\ apc' = "ended"
       ELSE /\ apc' = "getPR"
            /\ UNCHANGED failure
    /\ UNCHANGED <<pull, checkRuns, comments, outputs, warnings>>
    /\ UNCHANGED <<evaluatorVars, webhookVars, runnerVars>>

\* await octokit.rest.pulls.get resolves with the pull request
GetPR ==
    /\ apc = "getPR"
    /\ pull' \in PullRequests
    /\ apc' = "listFiles"
    /\ UNCHANGED <<inputs, checkRuns, comments, outputs, failure, warnings>>
    /\ UNCHANGED <<evaluatorVars, webhookVars, runnerVars>>

\* an entry point without the early return
AlwaysEvaluates(toEvaluate) == FALSE

\* if (filesToEvaluate.length === 0)
NothingToEvaluate(toEvaluate) == Len(toEvaluate) = 0

\* await octokit.rest.pulls.listFiles resolves: the files are filtered; with
\* nothing left the run ends, otherwise evaluatePullRequest is called with
\* the files alone
ListFiles ==
    /\ apc = "listFiles"
    /\ IF NothingToEvaluate(filesToEvaluate(pull.changed))
       THEN /\ outputs' = NoCodeOutputs
            /\ apc' = "ended"
            /\ UNCHANGED evaluatorVars
       ELSE /\ Call(filesToEvaluate(pull.changed), NoPRContext)
            /\ apc' = "evaluating"
            /\ UNCHANGED outputs
    /\ UNCHANGED <<inputs, pull, checkRuns, comments, failure, warnings>>
    /\ UNCHANGED <<webhookVars, runnerVars>>

\* the evaluation is under way or settled
EvaluationStarted == pc \in {"evaluating", "done"}

\* await evaluator.evaluatePullRequest(...) has settled
EvaluationSettled == pc = "done"

\* the evaluation settles: a rejection or a throw while the check run is put
\* together goes to the catch block, otherwise checks.create is requested
EvaluationSettles ==
    /\ apc = "evaluating"
    /\ EvaluationSettled
    /\ IF outcome.status = "rejected"
       THEN Catch("evaluatePullRequest")
       ELSE IF buildDetailsThrows(outcome.overallResult, fileResults)
       THEN Catch("buildDetails")
       ELSE apc' = "checkRun" /\ UNCHANGED failure
    /\ UNCHANGED <<inputs, pull, checkRuns, comments, outputs, warnings>>
    /\ UNCHANGED <<evaluatorVars, webhookVars, runnerVars>>

\* checks.create resolves: the outputs are set and, unless a comment is to be
\* posted first, the run concludes
CreateCheckRun ==
    /\ apc = "checkRun"
    /\ checkRuns' = Append(checkRuns, CheckRun(outcome.overallResult))
    /\ outputs' = VerdictOutputs(outcome.overallResult)
    /\ IF commentsOnHuman(outcome.overallResult)
       THEN apc' = "comment" /\ UNCHANGED <<failure, warnings>>
       ELSE Conclude(outcome.overallResult)
    /\ UNCHANGED <<inputs, pull, comments>>
    /\ UNCHANGED <<evaluatorVars, webhookVars, runnerVars>>

\* issues.createComment resolves: the run concludes
CreateComment ==
    /\ apc = "comment"
    /\ comments' = Append(comments, "buildHumanDetectionComment")
    /\ Conclude(outcome.overallResult)
    /\ UNCHANGED <<inputs, pull, checkRuns, outputs>>
    /\ UNCHANGED <<evaluatorVars, webhookVars, runnerVars>>

\* the places where run awaits a request to GitHub
Requests == {"getPR", "listFiles", "checkRun", "comment"}

\* GitHub rejects the request run is waiting for
RequestRejected ==
    /\ apc \in Requests
    /\ Catch(apc)
    /\ UNCHANGED <<inputs, pull, checkRuns, comments, outputs, warnings>>
    /\ UNCHANGED <<evaluatorVars, webhookVars, runnerVars>>

NextRun ==
    \/ GetInputs
    \/ GetPR
    \/ ListFiles
    \/ EvaluateNextFile
    \/ Aggregate
    \/ EvaluationSettles
    \/ CreateCheckRun
    \/ CreateComment
    \/ RequestRejected

SpecRun == Init /\ [][NextRun]_vars

-----------------------------------------------------------------------------
(* Properties of the action entry point *)

RunEnded == apc = "ended"

\* the run went through the catch block: a request was rejected or a step
\* threw
RunCaught == failure.kind = "Action failed"

\* the evaluation of at least one file is complete
EvaluatedSome == pc = "done" /\ outcome.status = "returned" /\ fileResults # <<>>

\* the run reached the end of its try block with a verdict
RunReported == RunEnded /\ EvaluatedSome /\ ~RunCaught

HumanVerdict == outcome.overallResult.isHumanLike

PullCarriesSignature ==
    \/ pull.context.hasDescription /\ CarriesSignature(pull.context.description)
    \/ /\ pull.context.hasCommitMessages
       /\ \E m \in 1..Len(pull.context.commitMessages) :
              CarriesSignature(pull.context.commitMessages[m])

\* C12: a run on a pull request whose commit messages or description carry
\* an explicit AI-tool attribution reports AI-authored (conclusion success,
\* result passed) whatever the per-file judgments are.
C12_ActionHonoursAttribution ==
    (RunReported /\ PullCarriesSignature) =>
        /\ checkRuns[1].conclusion = "success"
        /\ outputs.result = "passed"

C13_WitnessFailed ==
    /\ RunReported
    /\ HumanVerdict
    /\ inputs.failOnHuman = "true"
    /\ failure.kind = HumanWritten

C14_WitnessPosted ==
    /\ RunReported
    /\ HumanVerdict
    /\ inputs.postComment = ""
    /\ Len(comments) = 1

\* C15: when GitHub does not permit the check run, the run skips it and
\* still completes: the outputs are set from the verdict and the run is not
\* failed because of the check-run error.
C15_ForkDegradation ==
    (RunEnded /\ EvaluatedSome /\ checkRuns = <<>> /\ failure.at # "buildDetails") =>
        /\ outputs = VerdictOutputs(outcome.overallResult)
        /\ ~RunCaught

\* a verdict has been reported: a check run, a result output taken from a
\* verdict, or a comment
VerdictReported ==
    \/ checkRuns # <<>>
    \/ comments # <<>>
    \/ outputs.set /\ outputs # NoCodeOutputs

\* C16: a verdict is reported only when every file handed to the evaluator
\* has its judgment, and it is the verdict over all of them; a run that
\* reaches its catch block before the evaluation is complete has no check
\* run, no comment and no result output.
C16_NoPartialVerdict ==
    /\ VerdictReported =>
           /\ pc = "done"
           /\ files = filesToEvaluate(pull.changed)
           /\ Len(fileResults) = Len(files)
           /\ \A i \in 1..Len(files) : fileResults[i].filename = files[i].filename
           /\ outcome = Returned(Decide(fileResults, NoPRContext))
    /\ (RunCaught /\ ~EvaluatedSome) =>
           (checkRuns = <<>> /\ comments = <<>> /\ ~outputs.set)
    /\ (apc = "evaluating" /\ pc = "evaluating") => (~VerdictReported /\ ~outputs.set)

\* a verdict over two files, reported
C16_Witness ==
    /\ VerdictReported
    /\ Len(files) = 2
    /\ Len(fileResults) = 2
    /\ outputs.set

\* the run is between two per-file evaluations
C16_WitnessMidway ==
    /\ apc = "evaluating"
    /\ pc = "evaluating"
    /\ idx = 1
    /\ Len(files) = 2

\* README, Supported File Types
SupportedFileTypes ==
    {".js", ".jsx", ".ts", ".tsx", ".mjs", ".cjs", ".py", ".java", ".cpp", ".c",
     ".h", ".cs", ".rb", ".go", ".rs", ".swift", ".kt", ".scala", ".php",
     ".vue", ".svelte", ".astro", ".json", ".yaml", ".yml"}

IsSupported(cf) ==
    /\ cf.status # "removed"
    /\ cf.hasPatch
    /\ \E ext \in SupportedFileTypes : EndsWith(cf.filename, ext)

\* C17: the files the action sends for evaluation are the changed files that
\* are not removed, have a patch and end in an extension the README lists,
\* and GitHubClient.fetchPullRequestFiles keeps the same files.
C17_SameFilterEverywhere ==
    /\ pc # "idle" => files = filesToEvaluate(pull.changed)
    /\ filesToEvaluate(pull.changed) = ToEvaluate(SelectSeq(pull.changed, IsSupported))
    /\ fetchPullRequestFiles(pull.changed) = filesToEvaluate(pull.changed)

-----------------------------------------------------------------------------
(* verifyWebhookSignature *)

\* A signature header is the token "sha256=" (when it opens with it) and then
\* one token per character.

\* the bytes of a digest that are kept
DigestBytes == 2

Secrets == {<<>>, <<"test-secret">>, <<"other-secret">>}

Bodies == {<<>>, <<"{}">>, <<"{\"test\": \"data\"}">>}

SecretCode(secret) ==
    CASE secret = <<>> -> 0
      [] secret = <<"test-secret">> -> 1
      [] secret = <<"other-secret">> -> 2

BodyCode(body) ==
    CASE body = <<>> -> 0
      [] body = <<"{}">> -> 1
      [] body = <<"{\"test\": \"data\"}">> -> 2

\* crypto.subtle.sign('HMAC', key, body): a fixed digest for every key and
\* body, different for different pairs
HmacSha256(secret, body) ==
    [i \in 1..DigestBytes |->
        (151 * SecretCode(secret) + 83 * BodyCode(body) + 29 * i * i) % 256]

\* crypto.subtle.importKey('raw', ...) for HMAC rejects a key of length zero
\* with a DataError
importKeyThrows(secret) == secret = <<>>

HexDigits ==
    <<"0", "1", "2", "3", "4", "5", "6", "7", "8", "9", "a", "b", "c", "d", "e", "f">>

\* value.toString(16) of a byte
toString16(value) ==
    IF value < 16
    THEN <<HexDigits[value + 1]>>
    ELSE <<HexDigits[(value \div 16) + 1], HexDigits[(value % 16) + 1]>>

\* hexCode.padStart(2, '0')
padStart2(hexCode) == IF Len(hexCode) < 2 THEN <<"0">> \o hexCode ELSE hexCode

\* the hex codes joined without padding
arrayBufferToHexUnpadded(buffer) ==
    Flatten([i \in 1..Len(buffer) |-> toString16(buffer[i])])

arrayBufferToHex(buffer) ==
    Flatten([i \in 1..Len(buffer) |-> padStart2(toString16(buffer[i]))])

\* `sha256=${arrayBufferToHex(signatureBuffer)}`
expectedSignature(body, secret) ==
    <<"sha256=">> \o arrayBufferToHex(HmacSha256(secret, body))

Signature(text) == [null |-> FALSE, text |-> text]

NullSignature == [null |-> TRUE, text |-> <<>>]

\* the settled promise: "true", "false", or "threw" for a rejection
verifyWebhookSignature(body, signature, secret) ==
    IF signature.null \/ signature.text = <<>>
    THEN "false"
    ELSE IF importKeyThrows(secret)
    THEN "threw"
    ELSE IF signature.text = expectedSignature(body, secret)
    THEN "true"
    ELSE "false"

UpperHexToken(t) ==
    CASE t = "a" -> "A" [] t = "b" -> "B" [] t = "c" -> "C"
      [] t = "d" -> "D" [] t = "e" -> "E" [] t = "f" -> "F"
      [] OTHER -> t

\* two lower-case hex digits for every byte
LowerHex(bytes) ==
    Flatten([i \in 1..Len(bytes) |->
                <<HexDigits[(bytes[i] \div 16) + 1], HexDigits[(bytes[i] % 16) + 1]>>])

UpperHex(bytes) == [i \in 1..Len(LowerHex(bytes)) |-> UpperHexToken(LowerHex(bytes)[i])]

\* the headers a delivery can carry for a digest: the right one, the digest
\* in capitals, without the prefix, with another prefix, without leading
\* zeros, and cut short
SignaturesFor(bytes) ==
    {Signature(<<"sha256=">> \o LowerHex(bytes)),
     Signature(<<"sha256=">> \o UpperHex(bytes)),
     Signature(LowerHex(bytes)),
     Signature(<<"sha1=">> \o LowerHex(bytes)),
     Signature(<<"sha256=">> \o arrayBufferToHexUnpadded(bytes)),
     Signature(<<"sha256=">> \o SubSeq(LowerHex(bytes), 1, Len(LowerHex(bytes)) - 1))}

Signatures ==
    {NullSignature, Signature(<<>>),
     Signature(<<"sha256=", "i", "n", "v", "a", "l", "i", "d">>)}
        \cup UNION {SignaturesFor(HmacSha256(secret, body)) :
                        secret \in Secrets, body \in Bodies}

\* a delivery arrives
InitWebhook ==
    /\ InitEvaluator
    /\ InitRun
    /\ InitNoRunner
    /\ request \in [body : Bodies, signature : Signatures, secret : Secrets]
    /\ verified = "pending"

\* verifyWebhookSignature(body, signature, secret) settles
VerifySignature ==
    /\ verified = "pending"
    /\ verified' = verifyWebhookSignature(request.body, request.signature, request.secret)
    /\ UNCHANGED request
    /\ UNCHANGED <<evaluatorVars, runVars, runnerVars>>

NextWebhook == VerifySignature

SpecWebhook == InitWebhook /\ [][NextWebhook]_vars

\* the header is `sha256=` followed by the lower-case hex HMAC-SHA256 of the
\* body under the secret
IsValidSignature ==
    /\ ~request.signature.null
    /\ request.signature.text =
           <<"sha256=">> \o LowerHex(HmacSha256(request.secret, request.body))

\* C18 as claimed: the call returns true exactly for the valid header, false
\* for a null signature and for every other string, and never throws.
C18_VerifiesExactly ==
    verified \notin {"none", "pending"} =>
        /\ verified \in {"true", "false"}
        /\ verified = "true" <=> IsValidSignature

\* C18 amended: with a secret that is not empty the call returns true exactly
\* for the valid header and false otherwise, and never throws; a null or
\* empty signature gives false under every secret; with an empty secret and a
\* signature that is not empty the key import rejects.
C18_VerifiesExactlyUnderSecret ==
    verified \notin {"none", "pending"} =>
        /\ request.secret # <<>> =>
               /\ verified \in {"true", "false"}
               /\ verified = "true" <=> IsValidSignature
        /\ (request.signature.null \/ request.signature.text = <<>>) =>
               verified = "false"
        /\ (request.secret = <<>> /\ ~request.signature.null
                /\ request.signature.text # <<>>) => verified = "threw"

\* a valid header whose digest has a byte below 16
C18_Witness ==
    /\ verified = "true"
    /\ request.secret # <<>>
    /\ \E i \in 1..DigestBytes : HmacSha256(request.secret, request.body)[i] < 16

-----------------------------------------------------------------------------
(* The special cases of the decision and the signals behind the override *)

\* no file's judgment carries an indicator
NoFileIndicators ==
    \A i \in 1..Len(fileResults) : Len(fileResults[i].result.indicators) = 0

\* the confidence of analyzePRDescription: the score, capped at 95
DescriptionScore ==
    analyzePRDescription(prContext.present /\ prContext.hasDescription,
                         prContext.description).confidence

C21_WitnessScoreWins ==
    /\ Done
    /\ NoOverride
    /\ NoFileIndicators
    /\ DescriptionAIStyled
    /\ fileResults # <<>>
    /\ Lt(AverageConfidence(fileResults), DescriptionScore)
    /\ Result.confidence = DescriptionScore

\* the PR-level tags that the evaluator's own comments call AI indicators
AIIndicatingTags ==
    {TagPerfectConventionalCommits, TagVerboseNamingPatterns, TagComprehensiveCommenting}

\* the PR-level tags of an input, the AI-indicating ones left out
HumanLeaningOnly(prIndicators) ==
    LET IsHumanLeaning(tag) == tag \notin AIIndicatingTags
    IN  PRIndicators(SelectSeq(prIndicators.indicators, IsHumanLeaning),
                     prIndicators.confidenceAdjustment)

\* C22: a PR-level tag that indicates AI authorship never changes the
\* overall result from AI-authored to human-authored: whenever the verdict
\* is AI-authored with the AI-indicating tags left out, it is AI-authored
\* with them.
C22_OnlyHumanSignalsRescue ==
    (Done /\ NoOverride /\ prContext.present) =>
        (~Adjusted(CurrentVote, HumanLeaningOnly(CurrentPRIndicators)).isHumanLike
             => ~Result.isHumanLike)

\* a text names an AI tool as the author
NamesAITool(text) ==
    LET lower == ToLowerCase(text)
    IN  \/ Includes(lower, <<"claude">>)
        \/ Includes(lower, <<"copilot">>)
        \/ Includes(lower, <<"ai", SP, "tool">>)
        \/ Includes(lower, <<"ai", SP, "attribution">>)
        \/ Includes(lower, <<"generated", SP, "with">>)
        \/ Includes(text, <<ROBOT>>)

AIToolNamed ==
    \/ \E i \in 1..Len(fileResults) :
           \E k \in 1..Len(fileResults[i].result.indicators) :
               NamesAITool(fileResults[i].result.indicators[k])
    \/ /\ prContext.present
       /\ \/ prContext.hasDescription /\ NamesAITool(prContext.description)
          \/ /\ prContext.hasCommitMessages
             /\ \E m \in 1..Len(prContext.commitMessages) :
                    NamesAITool(prContext.commitMessages[m])

\* C23: an input in which no text names an AI tool as author (its only
\* matching text being a human co-author trailer or an ordinary use of the
\* word 'cursor') is not forced to an AI-authored verdict: its result is the
\* one the vote and the PR-context adjustment give.
C23_OverrideOnlyOnAttribution ==
    (Done /\ ~AIToolNamed) =>
        Result = applyPRContextAdjustments(fileResults, prContext)

\* a text carries the signature of Claude Code
NamesClaudeCode(text) == Includes(ToLowerCase(text), <<"claude", SP, "code">>)

ClaudeCodeSignatureInPR ==
    /\ prContext.present
    /\ \/ prContext.hasDescription /\ NamesClaudeCode(prContext.description)
       \/ /\ prContext.hasCommitMessages
          /\ \E m \in 1..Len(prContext.commitMessages) :
                 NamesClaudeCode(prContext.commitMessages[m])

\* C24: whenever a commit message or the PR description carries the
\* signature of Claude Code, the indicators of the overall result include
\* the tag claude-code-signature.
C24_SignatureTagReported ==
    (Done /\ ClaudeCodeSignatureInPR) =>
        TagClaudeCodeSignature \in Range(Result.indicators)

\* a number within [0, 100]
InRange(x) == ~IsNaN(x) /\ Ge(x, Num(0)) /\ Ge(Num(100), x)

\* C25: every judgment the evaluator returns has a numeric confidence within
\* [0, 100]: each per-file result of evaluateFile and the overall result of
\* evaluatePullRequest, the empty file list included.
C25_ConfidenceWithinRange ==
    /\ \A i \in 1..Len(fileResults) : InRange(fileResults[i].result.confidence)
    /\ Done => InRange(Result.confidence)

-----------------------------------------------------------------------------
(* evaluatePullRequest on free-text judge responses and checkbox descriptions *)

MaxTextFiles == 2

TextHuman80 == <<"Looks", SP, "human", ",", SP, "confidence", ":", SP, "80">>
TextNotHuman60 == <<"Not", SP, "Human", ".", SP, "Confidence", SP, "60">>
TextNoMarker == <<"Probably", SP, "AI">>
TextTwoMarkers ==
    <<"My", SP, "confidence", SP, "is", SP, "high", ".", NL,
      "Confidence", ":", SP, "95">>
TextDecimal == <<"AI", ",", SP, "confidence", ":", SP, "0", ".", "95">>
TextOver100 == <<"AI", ",", SP, "confidence", ":", SP, "150">>
TextEmpty == <<>>

Texts ==
    {TextHuman80, TextNotHuman60, TextNoMarker, TextTwoMarkers, TextDecimal,
     TextOver100, TextEmpty}

TextFiles == {FileToEvaluate(<<"src/txt", ".ts">>, ReplyText(t)) : t \in Texts}

DescOneCheckbox == <<"Fix", SP, "the", SP, "parser", NL, "- ", "[x]", SP, "done">>
DescUnchecked == <<"Fix", SP, "the", SP, "parser", NL, "- ", "[ ]", SP, "todo">>

CtxOneCheckbox == PRContext(TRUE, DescOneCheckbox, TRUE, <<MsgPlain>>)
CtxUnchecked == PRContext(TRUE, DescUnchecked, TRUE, <<MsgPlain>>)

TextContexts == {NoPRContext, CtxPlain, CtxUnchecked, CtxOneCheckbox, CtxStructured}

TextFileLists == UNION {[1..n -> TextFiles] : n \in 0..MaxTextFiles}

CallOnText ==
    /\ pc = "idle"
    /\ \E fs \in TextFileLists, ctx \in TextContexts : Call(fs, ctx)
    /\ UNCHANGED <<runVars, webhookVars, runnerVars>>

NextText ==
    \/ CallOnText
    \/ EvaluateNextFile
    \/ Aggregate
    \/ Return

SpecText == Init /\ [][NextText]_vars

\* the checked items `- [x]` of the description of the call
CheckedItems == CountMatches(prContext.description, <<"- ", "[x]">>)

CurrentDescAnalysis ==
    analyzePRDescription(prContext.present /\ prContext.hasDescription,
                         prContext.description)

\* C26: the indicator checkbox-task-list fires if and only if the
\* description contains at least two checked items `- [x]`.
C26_CheckboxNeedsTwo ==
    (pc # "idle" /\ prContext.present /\ prContext.hasDescription) =>
        (TagCheckboxTaskList \in Range(CurrentDescAnalysis.indicators)
             <=> CheckedItems >= 2)

\* the first `confidence` marker of a text, whatever follows it
Markers(s) == {i \in 1..Len(s) : LowerToken(s[i]) = "confidence"}

FirstMarker(s) == CHOOSE i \in Markers(s) : \A m \in Markers(s) : i <= m

\* a token of digits read as the digits after a decimal point
FractionOf(t) ==
    CASE t = "0" -> Rat(0, 10)
      [] t \in {"50", "60", "80", "95"} -> Rat(ParseInt(t), 100)
      [] t = "150" -> Rat(150, 1000)

\* the number written at position j of a text: digits, with a decimal part
\* when a point and digits follow
NumberAt(s, j) ==
    IF j + 2 <= Len(s) /\ s[j + 1] = "." /\ s[j + 2] \in DigitTokens
    THEN Plus(Num(ParseInt(s[j])), FractionOf(s[j + 2]))
    ELSE Num(ParseInt(s[j]))

\* the files of the call whose judge answered in free text
TextJudged == {i \in 1..Len(fileResults) : fileResults[i].judge.kind = "text"}

\* C27 as claimed: for every judge response that is not parseable JSON,
\* evaluateFile returns without error a judgment whose isHumanLike is true
\* exactly when the text contains "human" (case-insensitive) and whose
\* confidence is the number following the first `confidence` marker of the
\* text, or 50 when there is none.
C27_TextNormalization ==
    /\ pc = "done" => outcome.status = "returned"
    /\ \A i \in TextJudged :
           LET text == fileResults[i].judge.text
               result == fileResults[i].result
           IN  /\ result.isHumanLike <=> Includes(ToLowerCase(text), <<"human">>)
               /\ IF Markers(text) = {}
                  THEN result.confidence = Num(50)
                  ELSE LET j == SkipColonSpace(text, FirstMarker(text) + 1)
                       IN  /\ j <= Len(text)
                           /\ text[j] \in DigitTokens
                           /\ result.confidence = NumberAt(text, j)

\* C27 amended: for every non-empty judge response that is not parseable
\* JSON, evaluateFile returns without error a judgment whose isHumanLike is
\* true exactly when the text contains "human" (case-insensitive) and whose
\* confidence is the integer written by the digits that follow, after any
\* colons and white space, the first `confidence` marker that is followed by
\* digits, or 50 when no marker is followed by digits; for the empty
\* response it returns the fallback judgment (human-like, 50,
\* evaluation-error).
C27_TextNormalizationOfDigits ==
    /\ pc = "done" => outcome.status = "returned"
    /\ \A i \in TextJudged :
           LET text == fileResults[i].judge.text
               result == fileResults[i].result
               followed == {m \in Markers(text) :
                               LET j == SkipColonSpace(text, m + 1)
                               IN  j <= Len(text) /\ text[j] \in DigitTokens}
           IN  IF text = <<>>
               THEN result = FallbackResult
               ELSE /\ result.isHumanLike <=> Includes(ToLowerCase(text), <<"human">>)
                    /\ IF followed = {}
                       THEN result.confidence = Num(50)
                       ELSE \E m \in followed :
                                /\ \A k \in followed : m <= k
                                /\ result.confidence =
                                       Num(ParseInt(text[SkipColonSpace(text, m + 1)]))

\* a text with "human" in capitals and a marker without colon
C27_Witness ==
    \E i \in TextJudged :
        /\ fileResults[i].judge.text = TextNotHuman60
        /\ fileResults[i].result.isHumanLike
        /\ fileResults[i].result.confidence = Num(60)

\* a text whose first marker is not followed by digits
C27_WitnessSecondMarker ==
    \E i \in TextJudged :
        /\ fileResults[i].judge.text = TextTwoMarkers
        /\ ~fileResults[i].result.isHumanLike
        /\ fileResults[i].result.confidence = Num(95)

\* a text without marker
C27_WitnessDefault ==
    \E i \in TextJudged :
        /\ fileResults[i].judge.text = TextNoMarker
        /\ fileResults[i].result.confidence = Num(50)

-----------------------------------------------------------------------------
(* The action entry point when no file passes the filter *)

\* the request for the changed files resolved
FilesListed ==
    /\ apc \notin {"start", "getPR", "listFiles"}
    /\ pull # NoPull
    /\ failure.at # "listFiles"

NoFilePasses == FilesListed /\ filesToEvaluate(pull.changed) = <<>>

\* C30: when no changed file of the pull request passes the file filter, the
\* run ends with the outputs result 'passed' and confidence '100' and nothing
\* else: evaluatePullRequest is not called (no file is sent to the judge), no
\* check run is created, no comment is posted, and the run is neither failed
\* nor warned.
C30_NothingToEvaluateIsPassed ==
    NoFilePasses =>
        /\ RunEnded
        /\ outputs.set
        /\ outputs.result = "passed"
        /\ outputs.confidence = Literal100
        /\ pc = "idle"
        /\ fileResults = <<>>
        /\ outcome = NoOutcome
        /\ checkRuns = <<>>
        /\ comments = <<>>
        /\ failure = NoFailure
        /\ warnings = <<>>

\* a pull request with changed files none of which passes the filter, under
\* inputs that ask for a comment and for failing on a human verdict
C30_Witness ==
    /\ NoFilePasses
    /\ pull.changed # <<>>
    /\ postComment
    /\ failOnHuman
    /\ outputs = NoCodeOutputs

-----------------------------------------------------------------------------
(* runEvaluation of the two eval runners: the batch loop *)

MaxPRs == 5
MaxConcurrency == 3

Runners == {"EvalRunner", "SimplifiedEvalRunner"}

\* the concurrency option: absent, or an integer
ConcurrencyOptions ==
    {NoOptions} \cup {[given |-> TRUE, concurrency |-> c] : c \in -1..MaxConcurrency}

DefaultConcurrency == 4

\* EvalRunner:            const concurrency = filter?.concurrency || 4
\* SimplifiedEvalRunner:  const { limit, concurrency = 4 } = options
concurrency ==
    IF ~options.given THEN DefaultConcurrency
    ELSE IF runner = "EvalRunner" /\ options.concurrency = 0 THEN DefaultConcurrency
    ELSE options.concurrency

\* setTimeout(resolve, 1000), resp. setTimeout(resolve, 2000)
RateLimitPause == IF runner = "EvalRunner" THEN 1000 ELSE 2000

Min(a, b) == IF a < b THEN a ELSE b

\* a relative index of Array.prototype.slice over a list of the length len
RelativeIndex(len, k) ==
    IF k < 0 THEN (IF len + k < 0 THEN 0 ELSE len + k) ELSE Min(k, len)

\* prs.slice(from, to): the PRs taken, numbered from 1
Slice(len, from, to) ==
    {k \in 1..len : RelativeIndex(len, from) < k /\ k <= RelativeIndex(len, to)}

\* below -prs.length every slice is empty and the loop condition holds: the
\* loop indices there behave alike and are kept as one
ClampIndex(k) == IF k < 0 - (MaxPRs + 1) THEN 0 - (MaxPRs + 1) ELSE k

\* a loop that goes on as soon as the batch has been started
NeverAwaited(pending) == TRUE

\* await Promise.all(batchPromises): every promise of the batch is fulfilled
\* (the callbacks catch the errors of evaluatePullRequest)
AllSettled(pending) == pending = {}

\* runEvaluation is called: a runner, an option, a dataset (after `limit`)
InitRunner ==
    /\ InitEvaluator
    /\ InitRun
    /\ InitNoRequest
    /\ rpc = "start"
    /\ runner \in Runners
    /\ options \in ConcurrencyOptions
    /\ prs \in 0..MaxPRs
    /\ loopIndex = 0
    /\ inFlight = {}
    /\ started = [k \in 1..prs |-> 0]
    /\ resolved = 0
    /\ rejected = 0
    /\ batchSeen = FALSE
    /\ slept = 0
    /\ lastGap = NoGap

\* the dataset is loaded; EvalRunner returns the empty summary for none
LoadPRs ==
    /\ rpc = "start"
    /\ rpc' = IF runner = "EvalRunner" /\ prs = 0 THEN "returned" ELSE "loop"
    /\ UNCHANGED <<runner, options, prs, loopIndex, inFlight, started, resolved,
                   rejected, batchSeen, slept, lastGap>>
    /\ UNCHANGED <<evaluatorVars, runVars, webhookVars>>

\* `i < prs.length` holds: the batch is sliced and batch.map starts the
\* evaluation of each of its PRs
StartBatch ==
    /\ rpc = "loop"
    /\ loopIndex < prs
    /\ LET batch == Slice(prs, loopIndex, Min(loopIndex + concurrency, prs))
       IN  /\ inFlight' = inFlight \cup batch
           /\ started' = [k \in 1..prs |->
                             IF k \in batch THEN started[k] + 1 ELSE started[k]]
    /\ lastGap' = IF batchSeen THEN [set |-> TRUE, ms |-> slept] ELSE lastGap
    /\ batchSeen' = TRUE
    /\ slept' = 0
    /\ rpc' = "awaitAll"
    /\ UNCHANGED <<runner, options, prs, loopIndex, resolved, rejected>>
    /\ UNCHANGED <<evaluatorVars, runVars, webhookVars>>

\* evaluatePullRequest of one PR of the batch resolves, or rejects and is
\* caught by the callback
Settle ==
    /\ inFlight # {}
    /\ \E k \in inFlight, ok \in BOOLEAN :
           /\ inFlight' = inFlight \ {k}
           /\ resolved' = IF ok THEN resolved + 1 ELSE resolved
           /\ rejected' = IF ok THEN rejected ELSE rejected + 1
    /\ UNCHANGED <<rpc, runner, options, prs, loopIndex, started, batchSeen,
                   slept, lastGap>>
    /\ UNCHANGED <<evaluatorVars, runVars, webhookVars>>

\* Promise.all resolves; `if (i + concurrency < prs.length)` the pause
\* follows, otherwise `i += concurrency`
BatchSettled ==
    /\ rpc = "awaitAll"
    /\ AllSettled(inFlight)
    /\ IF loopIndex + concurrency < prs
       THEN /\ rpc' = "pause"
            /\ UNCHANGED loopIndex
       ELSE /\ rpc' = "loop"
            /\ loopIndex' = ClampIndex(loopIndex + concurrency)
    /\ UNCHANGED <<runner, options, prs, inFlight, started, resolved, rejected,
                   batchSeen, slept, lastGap>>
    /\ UNCHANGED <<evaluatorVars, runVars, webhookVars>>

\* the timer of the pause fires; `i += concurrency`
PauseElapsed ==
    /\ rpc = "pause"
    /\ slept' = RateLimitPause
    /\ loopIndex' = ClampIndex(loopIndex + concurrency)
    /\ rpc' = "loop"
    /\ UNCHANGED <<runner, options, prs, inFlight, started, resolved, rejected,
                   batchSeen, lastGap>>
    /\ UNCHANGED <<evaluatorVars, runVars, webhookVars>>

\* `i < prs.length` fails: the summary is computed and saved
Summarize ==
    /\ rpc = "loop"
    /\ ~(loopIndex < prs)
    /\ rpc' = "returned"
    /\ UNCHANGED <<runner, options, prs, loopIndex, inFlight, started, resolved,
                   rejected, batchSeen, slept, lastGap>>
    /\ UNCHANGED <<evaluatorVars, runVars, webhookVars>>

NextRunner ==
    \/ LoadPRs
    \/ StartBatch
    \/ Settle
    \/ BatchSettled
    \/ PauseElapsed
    \/ Summarize

SpecRunner == InitRunner /\ [][NextRunner]_vars

\* the event loop runs every continuation that is ready: promises settle and
\* timers fire
SpecRunnerFair == SpecRunner /\ WF_vars(NextRunner)

C28_WitnessFullBatch ==
    /\ options.given
    /\ concurrency = 2
    /\ Cardinality(inFlight) = 2
    /\ lastGap.set

\* C29: runEvaluation terminates for every dataset and every value of the
\* concurrency option (absent, zero or any other integer), having started
\* the evaluation of each selected PR exactly once.
C29_TerminatesHavingStartedEach ==
    <>(rpc = "returned" /\ \A k \in 1..prs : started[k] = 1)

====
